---- MODULE Spec2Model ----
(***************************************************************************)
(* Polling filters of the eth RPC (rpc/src/v1/impls/eth_filter.rs).        *)
(*                                                                         *)
(* The chain, the transaction pool and the poll registry are the state;    *)
(* every RPC method of `impl EthFilter for T` is an action (or, for the    *)
(* two polling methods, which hand back a future, a short sequence of      *)
(* actions: compute under the registry lock, return, resolve, respond).    *)
(***************************************************************************)
EXTENDS Integers, Sequences, FiniteSets, TLC

\* ------------------------------------------------------------- bounds
\* Highest block number the chain grows to (block 0 is the genesis block).
MaxBlock == 2
\* Number of filter ids the registry issues.
MaxFilters == 2
\* Number of concurrently served RPC callers.
MaxClients == 2
\* Number of distinct transactions that may enter the pending pool.
MaxTx == 2
\* Number of RPC calls served in one run.
MaxCalls == 4
\* Highest block number of the chain a filter is registered on and then sees
\* two more blocks appended to.
ScenarioBlocks == 3

Clients == 1..MaxClients
NoClient == 0
Ids == 0..(MaxFilters - 1)
TxHashes == 1..MaxTx

\* Option<usize>::None of Filter::limit.
NoLimit == -1

\* What a block of the canonical chain is like to the backend:
\*   "plain": one transaction, no matching log, replay succeeds
\*   "log":   one transaction carrying one log that matches, replay succeeds
\*   "bad":   one transaction, replay_block_transactions fails
\*   "gap":   the number does not resolve (block_hash and block_body: None)
BlockKinds == {"plain", "log", "bad", "gap"}

\* The criteria (v1::types::Filter) a caller may register a log filter with.
Criteria ==
    {[from_block |-> 0, to_block |-> "latest", limit |-> NoLimit],
     [from_block |-> 0, to_block |-> "pending", limit |-> NoLimit],
     [from_block |-> 0, to_block |-> "pending", limit |-> 1]}

VARIABLES
    chain,      \* blocks 1..best of the canonical chain: chain[n] \in BlockKinds
    pool,       \* the miner's ready transactions, in the miner's order
    polls,      \* PollManager<PollFilter>: live id -> PollFilter
    next_id,    \* PollManager: the next id create_poll hands out
    lock,       \* owner of Mutex<PollManager<..>>, or NoClient
    req,        \* per caller: the RPC call it has in flight
    calls,      \* number of RPC calls begun so far
    hist,       \* per live id: what an observer of the calls has recorded
    removed     \* ids uninstall_filter has removed

vars == <<chain, pool, polls, next_id, lock, req, calls, hist, removed>>

\* ------------------------------------------------------------ helpers
Range(s) == {s[i] : i \in DOMAIN s}

RECURSIVE Flatten(_)
Flatten(ss) == IF ss = <<>> THEN <<>> ELSE Head(ss) \o Flatten(Tail(ss))

\* lo..hi-1 as a sequence: the iterator (lo..hi).
RangeSeq(lo, hi) == [i \in 1..(IF hi > lo THEN hi - lo ELSE 0) |-> lo + i - 1]

Min(a, b) == IF a < b THEN a ELSE b

\* ---------------------------------------------- Filterable (the backend)
best_block_number == Len(chain)

KindOf(n) == IF n = 0 THEN "plain" ELSE chain[n]

\* Option<H256> as a sequence of length <= 1; the hash of block n is n.
block_hash(n) ==
    IF n <= best_block_number /\ KindOf(n) # "gap" THEN <<n>> ELSE <<>>

\* Option<encoded::Body>: the transaction hashes of the body. The genesis block
\* holds no transaction; block n > 0 holds one, whose hash is n.
block_body(n) ==
    IF n <= best_block_number /\ KindOf(n) # "gap"
    THEN [found |-> TRUE, transaction_hashes |-> IF n = 0 THEN <<>> ELSE <<n>>]
    ELSE [found |-> FALSE, transaction_hashes |-> <<>>]

pending_transactions_hashes == pool

MinedLog(n) == [pending |-> FALSE, n |-> n]
PendingLog(t) == [pending |-> TRUE, n |-> t]

\* The matching logs of blocks from..best, in block order (to_block = Latest).
logs(from) ==
    LET nums == SelectSeq(RangeSeq(from, best_block_number + 1),
                          LAMBDA n : KindOf(n) = "log")
    IN  [i \in 1..Len(nums) |-> MinedLog(nums[i])]

\* The matching logs of the pending block: one per pending transaction.
pending_logs == [i \in 1..Len(pool) |-> PendingLog(pool[i])]

\* Result<Result<Iterator<Executed>, CallError>>: the outputs of the block's
\* transactions (the output of the transaction of block n is n).
replay_block_transactions(n) ==
    IF KindOf(n) = "bad"
    THEN [ok |-> FALSE, outputs |-> <<>>]
    ELSE [ok |-> TRUE, outputs |-> IF n = 0 \/ KindOf(n) = "gap" THEN <<>> ELSE <<n>>]

\* ------------------------------------------------------- v1::helpers
\* Keep the last `limit` logs.
limit_logs(ls, limit) ==
    IF limit # NoLimit /\ Len(ls) >= limit
    THEN SubSeq(ls, Len(ls) - limit + 1, Len(ls))
    ELSE ls

\* PollManager: ids are handed out in increasing order and never again.
create_poll(f) == [polls |-> [id \in (DOMAIN polls) \cup {next_id} |->
                                 IF id = next_id THEN f ELSE polls[id]],
                   id |-> next_id,
                   next_id |-> next_id + 1]

\* PollManager::poll / poll_mut: Option<&PollFilter> as a sequence of length <= 1.
poll(id) == IF id \in DOMAIN polls THEN <<polls[id]>> ELSE <<>>

\* PollManager::remove_poll: whether the id was live, and the registry without it.
remove_poll(id) ==
    [existed |-> id \in DOMAIN polls,
     polls |-> [i \in (DOMAIN polls) \ {id} |-> polls[i]]]

\* ---------------------------------------------------------- PollFilter
\* One record shape for the four variants; a variant reads only its own fields.
NoFilter == [from_block |-> 0, to_block |-> "latest", limit |-> NoLimit]

Block(n) ==
    [kind |-> "Block", block_number |-> n, hashes |-> <<>>,
     previous_logs |-> {}, filter |-> NoFilter]
PendingTransaction(hs) ==
    [kind |-> "PendingTransaction", block_number |-> 0, hashes |-> hs,
     previous_logs |-> {}, filter |-> NoFilter]
Logs(n, prev, f) ==
    [kind |-> "Logs", block_number |-> n, hashes |-> <<>>,
     previous_logs |-> prev, filter |-> f]
ReturnData(n) ==
    [kind |-> "ReturnData", block_number |-> n, hashes |-> <<>>,
     previous_logs |-> {}, filter |-> NoFilter]


\* ------------------------------------------------- results and calls
\* What a call answers: an error or FilterChanges / Vec<Log> / id / bool.
NoResult == [tag |-> "none", val |-> <<>>]
Ok(tag, val) == [tag |-> tag, val |-> val]
filter_not_found == [tag |-> "filter_not_found", val |-> <<>>]
backend_failed == [tag |-> "failed", val |-> <<>>]

\* The asynchronous backend call a poll has issued and not yet seen resolve:
\* self.logs(filter) with what is appended to it, or the block_body calls of
\* join_all, one per replayed block.
NoCall == [kind |-> "none", from |-> 0, pending |-> <<>>, limit |-> NoLimit,
           executed |-> <<>>]
LogsCall(from, pending, limit) ==
    [kind |-> "logs", from |-> from, pending |-> pending, limit |-> limit,
     executed |-> <<>>]
BodiesCall(executed) ==
    [kind |-> "bodies", from |-> 0, pending |-> <<>>, limit |-> NoLimit,
     executed |-> executed]

\* ------------------------------------------- filter_changes, per variant
\* Each yields the filter as the poll leaves it, the result when it is known
\* without the backend, and the backend call issued otherwise.

\* changes_Block saving the best block number itself as the cursor: the next
\* poll starts on a block this one went over.
changes_Block_again(f) ==
    LET current_number == best_block_number + 1
        nums == SelectSeq(RangeSeq(f.block_number, current_number),
                          LAMBDA n : block_hash(n) # <<>>)
        hashes == [i \in 1..Len(nums) |-> block_hash(nums[i])[1]]
    IN  [filter |-> [f EXCEPT !.block_number = best_block_number],
         result |-> Ok("hashes", hashes),
         call |-> NoCall]

\* changes_Block with the range ending at the best block number itself: the
\* current best block is left out and the cursor stops on it.
changes_Block_short(f) ==
    LET current_number == best_block_number
        nums == SelectSeq(RangeSeq(f.block_number, current_number),
                          LAMBDA n : block_hash(n) # <<>>)
        hashes == [i \in 1..Len(nums) |-> block_hash(nums[i])[1]]
    IN  [filter |-> [f EXCEPT !.block_number = current_number],
         result |-> Ok("hashes", hashes),
         call |-> NoCall]

\* PollFilter::Block
changes_Block(f) ==
    LET current_number == best_block_number + 1
        nums == SelectSeq(RangeSeq(f.block_number, current_number),
                          LAMBDA n : block_hash(n) # <<>>)
        hashes == [i \in 1..Len(nums) |-> block_hash(nums[i])[1]]
    IN  [filter |-> [f EXCEPT !.block_number = current_number],
         result |-> Ok("hashes", hashes),
         call |-> NoCall]

\* changes_PendingTransaction keeping every hash ever seen instead of the
\* current list.
changes_PendingTransaction_union(f) ==
    LET current_hashes == pending_transactions_hashes
        previous_hashes_set == Range(f.hashes)
        new_hashes == SelectSeq(current_hashes,
                                LAMBDA h : h \notin previous_hashes_set)
    IN  [filter |-> [f EXCEPT !.hashes = f.hashes \o new_hashes],
         result |-> Ok("hashes", new_hashes),
         call |-> NoCall]

\* PollFilter::PendingTransaction
changes_PendingTransaction(f) ==
    LET current_hashes == pending_transactions_hashes
        previous_hashes_set == Range(f.hashes)
        new_hashes == SelectSeq(current_hashes,
                                LAMBDA h : h \notin previous_hashes_set)
    IN  [filter |-> [f EXCEPT !.hashes = current_hashes],
         result |-> Ok("hashes", new_hashes),
         call |-> NoCall]

\* changes_Logs writing the range of its query into the stored criteria
\* instead of into a clone of them.
changes_Logs_inplace(f) ==
    LET current_number == best_block_number
        include_pending == f.filter.to_block = "pending"
        new_pending_logs ==
            IF include_pending
            THEN SelectSeq(pending_logs, LAMBDA p : p \notin f.previous_logs)
            ELSE <<>>
        previous_logs ==
            IF include_pending THEN Range(pending_logs) ELSE f.previous_logs
    IN  [filter |-> [f EXCEPT !.previous_logs = previous_logs,
                              !.block_number = current_number + 1,
                              !.filter.from_block = f.block_number,
                              !.filter.to_block = "latest"],
         result |-> NoResult,
         call |-> LogsCall(f.block_number, new_pending_logs, f.filter.limit)]

\* changes_Logs adding the pending logs it read to those it knows, instead of
\* replacing them.
changes_Logs_union(f) ==
    LET current_number == best_block_number
        include_pending == f.filter.to_block = "pending"
        new_pending_logs ==
            IF include_pending
            THEN SelectSeq(pending_logs, LAMBDA p : p \notin f.previous_logs)
            ELSE <<>>
        previous_logs ==
            IF include_pending THEN f.previous_logs \cup Range(pending_logs)
            ELSE f.previous_logs
    IN  [filter |-> [f EXCEPT !.previous_logs = previous_logs,
                              !.block_number = current_number + 1],
         result |-> NoResult,
         call |-> LogsCall(f.block_number, new_pending_logs, f.filter.limit)]

\* changes_Logs leaving the cursor for the future to save once the logs are
\* there.
changes_Logs_deferred(f) ==
    LET include_pending == f.filter.to_block = "pending"
        new_pending_logs ==
            IF include_pending
            THEN SelectSeq(pending_logs, LAMBDA p : p \notin f.previous_logs)
            ELSE <<>>
        previous_logs ==
            IF include_pending THEN Range(pending_logs) ELSE f.previous_logs
    IN  [filter |-> [f EXCEPT !.previous_logs = previous_logs],
         result |-> NoResult,
         call |-> LogsCall(f.block_number, new_pending_logs, f.filter.limit)]

\* changes_Logs saving the current best block number itself as the first block
\* of the next query.
changes_Logs_current(f) ==
    LET current_number == best_block_number
        include_pending == f.filter.to_block = "pending"
        new_pending_logs ==
            IF include_pending
            THEN SelectSeq(pending_logs, LAMBDA p : p \notin f.previous_logs)
            ELSE <<>>
        previous_logs ==
            IF include_pending THEN Range(pending_logs) ELSE f.previous_logs
    IN  [filter |-> [f EXCEPT !.previous_logs = previous_logs,
                              !.block_number = current_number],
         result |-> NoResult,
         call |-> LogsCall(f.block_number, new_pending_logs, f.filter.limit)]

\* changes_Logs without "save all logs retrieved by client": previous_logs is
\* left as it was.
changes_Logs_unsaved(f) ==
    LET current_number == best_block_number
        include_pending == f.filter.to_block = "pending"
        new_pending_logs ==
            IF include_pending
            THEN SelectSeq(pending_logs, LAMBDA p : p \notin f.previous_logs)
            ELSE <<>>
    IN  [filter |-> [f EXCEPT !.block_number = current_number + 1],
         result |-> NoResult,
         call |-> LogsCall(f.block_number, new_pending_logs, f.filter.limit)]

\* PollFilter::Logs
changes_Logs(f) ==
    LET current_number == best_block_number
        include_pending == f.filter.to_block = "pending"
        new_pending_logs ==
            IF include_pending
            THEN SelectSeq(pending_logs, LAMBDA p : p \notin f.previous_logs)
            ELSE <<>>
        previous_logs ==
            IF include_pending THEN Range(pending_logs) ELSE f.previous_logs
    IN  [filter |-> [f EXCEPT !.previous_logs = previous_logs,
                              !.block_number = current_number + 1],
         result |-> NoResult,
         call |-> LogsCall(f.block_number, new_pending_logs, f.filter.limit)]

\* changes_ReturnData leaving the cursor on the first block whose replay failed,
\* so that the next poll tries it again.
changes_ReturnData_retry(f) ==
    LET current_number == best_block_number + 1
        range == RangeSeq(f.block_number, current_number)
        blocks == SelectSeq(range, LAMBDA n : replay_block_transactions(n).ok)
        failed == SelectSeq(range, LAMBDA n : ~replay_block_transactions(n).ok)
        executed == [i \in 1..Len(blocks) |->
                        [block |-> blocks[i],
                         output_bytes |-> replay_block_transactions(blocks[i]).outputs]]
    IN  [filter |-> [f EXCEPT !.block_number =
                        IF failed = <<>> THEN current_number ELSE failed[1]],
         result |-> NoResult,
         call |-> BodiesCall(executed)]

\* PollFilter::ReturnData
changes_ReturnData(f) ==
    LET current_number == best_block_number + 1
        blocks == SelectSeq(RangeSeq(f.block_number, current_number),
                            LAMBDA n : replay_block_transactions(n).ok)
        executed == [i \in 1..Len(blocks) |->
                        [block |-> blocks[i],
                         output_bytes |-> replay_block_transactions(blocks[i]).outputs]]
    IN  [filter |-> [f EXCEPT !.block_number = current_number],
         result |-> NoResult,
         call |-> BodiesCall(executed)]

changes(f) ==
    CASE f.kind = "Block" -> changes_Block(f)
      [] f.kind = "PendingTransaction" -> changes_PendingTransaction(f)
      [] f.kind = "Logs" -> changes_Logs(f)
      [] f.kind = "ReturnData" -> changes_ReturnData(f)

\* ---------------------------------------------- resolving a backend call
\* The limit applied to the backend's logs alone, the pending ones appended
\* after it.
logs_result_early(ls, pending, limit) == limit_logs(ls, limit) \o pending

\* logs.extend(pending), then limit_logs.
logs_result(ls, pending, limit) == limit_logs(ls \o pending, limit)

\* The ReturnData records of one replayed block, once its body is there.
return_data_of(e) ==
    LET body == block_body(e.block)
        n == Min(Len(e.output_bytes), Len(body.transaction_hashes))
    IN  IF ~body.found THEN <<>>
        ELSE [i \in 1..n |-> [transaction_hash |-> body.transaction_hashes[i],
                              return_data |-> e.output_bytes[i],
                              removed |-> FALSE]]

resolve(call) ==
    CASE call.kind = "logs" ->
            Ok("logs", logs_result(logs(call.from), call.pending, call.limit))
      [] call.kind = "bodies" ->
            Ok("return_data",
               Flatten([i \in 1..Len(call.executed) |-> return_data_of(call.executed[i])]))


\* ------------------------------------------------------ request state
\* pc: "idle"     no call in flight
\*     "held"     filter_changes has run its match and holds the registry
\*                lock (the guard `polls` lives to the end of the function)
\*     "pending"  the method has returned its future; the backend call of
\*                the future is outstanding
\*     "done"     the result is known; it is handed to the caller next
\* quiet: the filter was freshly registered when the poll began, and neither
\*        the chain nor the pool has changed since (observer's note).
IdleReq ==
    [pc |-> "idle", op |-> "none", id |-> 0, call |-> NoCall,
     result |-> NoResult, quiet |-> FALSE]

\* No call is between the end of its synchronous part and its return, and no
\* known result waits to be handed over. Returning and handing over touch the
\* caller's own request (and free the lock) and nothing else, so they are
\* scheduled before any other step: no behaviour of the registry is lost.
Settled == \A c \in Clients : req[c].pc \in {"idle", "pending"}

Done(op, id, result) ==
    [pc |-> "done", op |-> op, id |-> id, call |-> NoCall,
     result |-> result, quiet |-> FALSE]

\* What an observer notes for a filter when it is registered.
NewHist(kind) ==
    [kind |-> kind,
     fresh |-> TRUE,                   \* no poll, no chain or pool change yet
     first |-> IF kind \in {"Logs", "Block"} THEN best_block_number ELSE 0,
                                       \* best block at registration
     best |-> IF kind \in {"Block", "ReturnData"} THEN best_block_number ELSE 0,
                                       \* best block at registration / last poll
     list |-> IF kind = "PendingTransaction" THEN pool ELSE <<>>,
                                       \* pending list at registration / last poll
     handed |-> {},                    \* pending logs the last poll handed out
     delivered |-> {},                 \* blocks whose log a poll has returned
     twice |-> {},                     \* blocks whose log polls returned twice
     replayed |-> {},                  \* blocks a poll has replayed
     taken |-> {},                     \* block numbers a poll of a block filter went over
     reported |-> {},                  \* hashes polls of a pending-transaction filter answered
     again |-> {},                     \* those of them answered more than once
     failed |-> FALSE]                 \* a backend call of a poll has failed

Register(c, op, f) ==
    LET cp == create_poll(f)
    IN  /\ Settled
        /\ req[c].pc = "idle"
        /\ lock = NoClient
        /\ next_id < MaxFilters
        /\ calls < MaxCalls
        /\ calls' = calls + 1
        /\ polls' = cp.polls
        /\ next_id' = cp.next_id
        /\ req' = [req EXCEPT ![c] = Done(op, cp.id, Ok("id", <<cp.id>>))]
        /\ hist' = [i \in (DOMAIN hist) \cup {cp.id} |->
                       IF i = cp.id THEN NewHist(f.kind) ELSE hist[i]]
        /\ UNCHANGED <<chain, pool, lock, removed>>

\* ------------------------------------------------------------ EthFilter
new_filter(c, filter) ==
    Register(c, "new_filter", Logs(best_block_number, {}, filter))

new_block_filter(c) ==
    Register(c, "new_block_filter", Block(best_block_number + 1))

new_pending_transaction_filter(c) ==
    Register(c, "new_pending_transaction_filter",
             PendingTransaction(pending_transactions_hashes))

new_return_data_filter(c) ==
    Register(c, "new_return_data_filter", ReturnData(best_block_number))

\* The observer's notes after a poll of filter f has run its match.
PolledHist(h, f, out) ==
    [h EXCEPT !.fresh = FALSE,
              !.best = IF f.kind \in {"Block", "ReturnData"}
                       THEN best_block_number ELSE 0,
              !.list = IF f.kind = "PendingTransaction" THEN pool ELSE <<>>,
              !.handed = Range(out.call.pending),
              !.replayed = @ \cup (IF f.kind = "ReturnData"
                                   THEN Range(RangeSeq(f.block_number, best_block_number + 1))
                                   ELSE {}),
              !.taken = @ \cup (IF f.kind = "Block"
                                THEN Range(RangeSeq(f.block_number, best_block_number + 1))
                                ELSE {}),
              !.reported = @ \cup (IF f.kind = "PendingTransaction"
                                   THEN Range(out.result.val) ELSE {}),
              !.again = @ \cup (IF f.kind = "PendingTransaction"
                                THEN Range(out.result.val) \cap h.reported ELSE {})]

\* filter_changes running the match on every live filter of the variant of the
\* one asked for.
filter_changes_all(c, id) ==
    /\ Settled
    /\ req[c].pc = "idle"
    /\ lock = NoClient
    /\ calls < MaxCalls
    /\ calls' = calls + 1
    /\ lock' = c
    /\ IF poll(id) = <<>>
       THEN /\ req' = [req EXCEPT ![c] =
                          [pc |-> "held", op |-> "filter_changes", id |-> id,
                           call |-> NoCall, result |-> filter_not_found,
                           quiet |-> FALSE]]
            /\ UNCHANGED <<polls, hist>>
       ELSE LET f == poll(id)[1]
                out == changes(f)
            IN  /\ polls' = [j \in DOMAIN polls |->
                                IF polls[j].kind = f.kind
                                THEN changes(polls[j]).filter ELSE polls[j]]
                /\ req' = [req EXCEPT ![c] =
                              [pc |-> "held", op |-> "filter_changes", id |-> id,
                               call |-> out.call, result |-> out.result,
                               quiet |-> hist[id].fresh]]
                /\ hist' = [hist EXCEPT ![id] = PolledHist(@, f, out)]
    /\ UNCHANGED <<chain, pool, next_id, removed>>

\* filter_changes answering an id that is not live with an empty list of hashes
\* instead of the error.
filter_changes_lenient(c, id) ==
    /\ Settled
    /\ req[c].pc = "idle"
    /\ lock = NoClient
    /\ calls < MaxCalls
    /\ calls' = calls + 1
    /\ lock' = c
    /\ IF poll(id) = <<>>
       THEN /\ req' = [req EXCEPT ![c] =
                          [pc |-> "held", op |-> "filter_changes", id |-> id,
                           call |-> NoCall, result |-> Ok("hashes", <<>>),
                           quiet |-> FALSE]]
            /\ UNCHANGED <<polls, hist>>
       ELSE LET f == poll(id)[1]
                out == changes(f)
            IN  /\ polls' = [polls EXCEPT ![id] = out.filter]
                /\ req' = [req EXCEPT ![c] =
                              [pc |-> "held", op |-> "filter_changes", id |-> id,
                               call |-> out.call, result |-> out.result,
                               quiet |-> hist[id].fresh]]
                /\ hist' = [hist EXCEPT ![id] = PolledHist(@, f, out)]
    /\ UNCHANGED <<chain, pool, next_id, removed>>

\* filter_changes up to the point where the future is built: lock, poll_mut,
\* match, cursor update, backend call issued. The guard is still alive.
filter_changes(c, id) ==
    /\ Settled
    /\ req[c].pc = "idle"
    /\ lock = NoClient
    /\ calls < MaxCalls
    /\ calls' = calls + 1
    /\ lock' = c
    /\ IF poll(id) = <<>>
       THEN /\ req' = [req EXCEPT ![c] =
                          [pc |-> "held", op |-> "filter_changes", id |-> id,
                           call |-> NoCall, result |-> filter_not_found,
                           quiet |-> FALSE]]
            /\ UNCHANGED <<polls, hist>>
       ELSE LET f == poll(id)[1]
                out == changes(f)
            IN  /\ polls' = [polls EXCEPT ![id] = out.filter]
                /\ req' = [req EXCEPT ![c] =
                              [pc |-> "held", op |-> "filter_changes", id |-> id,
                               call |-> out.call, result |-> out.result,
                               quiet |-> hist[id].fresh]]
                /\ hist' = [hist EXCEPT ![id] = PolledHist(@, f, out)]
    /\ UNCHANGED <<chain, pool, next_id, removed>>

\* filter_changes returns: the guard is dropped, the caller holds the future.
filter_changes_return(c) ==
    /\ req[c].pc = "held"
    /\ lock' = NoClient
    /\ req' = [req EXCEPT ![c].pc = IF req[c].call.kind = "none"
                                    THEN "done" ELSE "pending"]
    /\ UNCHANGED <<chain, pool, polls, next_id, calls, hist, removed>>

\* filter_logs saving the pending logs it read as seen by the filter.
filter_logs_marking(c, id) ==
    /\ Settled
    /\ req[c].pc = "idle"
    /\ lock = NoClient
    /\ calls < MaxCalls
    /\ calls' = calls + 1
    /\ req' = [req EXCEPT ![c] =
          IF poll(id) = <<>> THEN Done("filter_logs", id, filter_not_found)
          ELSE IF poll(id)[1].kind # "Logs" THEN Done("filter_logs", id, Ok("logs", <<>>))
          ELSE LET filter == poll(id)[1].filter
                   include_pending == filter.to_block = "pending"
                   pending == IF include_pending THEN pending_logs ELSE <<>>
               IN  [pc |-> "pending", op |-> "filter_logs", id |-> id,
                    call |-> LogsCall(filter.from_block, pending, filter.limit),
                    result |-> NoResult, quiet |-> FALSE]]
    /\ polls' = IF poll(id) # <<>> /\ poll(id)[1].kind = "Logs"
                   /\ poll(id)[1].filter.to_block = "pending"
                THEN [polls EXCEPT ![id].previous_logs = Range(pending_logs)]
                ELSE polls
    /\ UNCHANGED <<chain, pool, next_id, lock, hist, removed>>

\* filter_logs querying from the filter's cursor and appending only the pending
\* logs the filter has not seen, as filter_changes does.
filter_logs_from_cursor(c, id) ==
    /\ Settled
    /\ req[c].pc = "idle"
    /\ lock = NoClient
    /\ calls < MaxCalls
    /\ calls' = calls + 1
    /\ req' = [req EXCEPT ![c] =
          IF poll(id) = <<>> THEN Done("filter_logs", id, filter_not_found)
          ELSE IF poll(id)[1].kind # "Logs" THEN Done("filter_logs", id, Ok("logs", <<>>))
          ELSE LET filter == poll(id)[1].filter
                   include_pending == filter.to_block = "pending"
                   pending == IF include_pending
                              THEN SelectSeq(pending_logs,
                                             LAMBDA l : l \notin poll(id)[1].previous_logs)
                              ELSE <<>>
               IN  [pc |-> "pending", op |-> "filter_logs", id |-> id,
                    call |-> LogsCall(poll(id)[1].block_number, pending, filter.limit),
                    result |-> NoResult, quiet |-> FALSE]]
    /\ UNCHANGED <<chain, pool, polls, next_id, lock, hist, removed>>

\* filter_logs up to the point where the future is built. The registry is
\* locked for the lookup alone.
filter_logs(c, id) ==
    /\ Settled
    /\ req[c].pc = "idle"
    /\ lock = NoClient
    /\ calls < MaxCalls
    /\ calls' = calls + 1
    /\ req' = [req EXCEPT ![c] =
          IF poll(id) = <<>> THEN Done("filter_logs", id, filter_not_found)
          ELSE IF poll(id)[1].kind # "Logs" THEN Done("filter_logs", id, Ok("logs", <<>>))
          ELSE LET filter == poll(id)[1].filter
                   include_pending == filter.to_block = "pending"
                   pending == IF include_pending THEN pending_logs ELSE <<>>
               IN  [pc |-> "pending", op |-> "filter_logs", id |-> id,
                    call |-> LogsCall(filter.from_block, pending, filter.limit),
                    result |-> NoResult, quiet |-> FALSE]]
    /\ UNCHANGED <<chain, pool, polls, next_id, lock, hist, removed>>

\* uninstall_filter answering as it does and leaving the filter in the registry.
uninstall_filter_kept(c, id) ==
    /\ Settled
    /\ req[c].pc = "idle"
    /\ lock = NoClient
    /\ calls < MaxCalls
    /\ calls' = calls + 1
    /\ req' = [req EXCEPT ![c] =
                  Done("uninstall_filter", id, Ok("bool", <<remove_poll(id).existed>>))]
    /\ removed' = IF remove_poll(id).existed THEN removed \cup {id} ELSE removed
    /\ UNCHANGED <<chain, pool, polls, next_id, lock, hist>>

uninstall_filter(c, id) ==
    /\ Settled
    /\ req[c].pc = "idle"
    /\ lock = NoClient
    /\ calls < MaxCalls
    /\ calls' = calls + 1
    /\ polls' = remove_poll(id).polls
    /\ hist' = [i \in (DOMAIN hist) \ {id} |-> hist[i]]
    /\ req' = [req EXCEPT ![c] =
                  Done("uninstall_filter", id, Ok("bool", <<remove_poll(id).existed>>))]
    /\ removed' = IF remove_poll(id).existed THEN removed \cup {id} ELSE removed
    /\ UNCHANGED <<chain, pool, next_id, lock>>

\* The observer's notes once a log poll has answered with `ls`.
DeliveredHist(h, ls) ==
    LET mined == {l.n : l \in {x \in Range(ls) : ~x.pending}}
    IN  [h EXCEPT !.delivered = @ \cup mined,
                  !.twice = @ \cup (mined \cap h.delivered)]

\* The backend call of the future resolves.
Resolve(c) ==
    /\ Settled
    /\ req[c].pc = "pending"
    /\ req' = [req EXCEPT ![c].pc = "done",
                          ![c].call = NoCall,
                          ![c].result = resolve(req[c].call)]
    /\ hist' = IF req[c].op = "filter_changes" /\ req[c].call.kind = "logs"
                  /\ req[c].id \in DOMAIN hist
               THEN [hist EXCEPT ![req[c].id] =
                        DeliveredHist(@, resolve(req[c].call).val)]
               ELSE hist
    /\ UNCHANGED <<chain, pool, polls, next_id, lock, calls, removed>>

\* The backend call of the future fails.
ResolveFail(c) ==
    /\ Settled
    /\ req[c].pc = "pending"
    /\ req' = [req EXCEPT ![c].pc = "done",
                          ![c].call = NoCall,
                          ![c].result = backend_failed]
    /\ hist' = IF req[c].op = "filter_changes" /\ req[c].id \in DOMAIN hist
               THEN [hist EXCEPT ![req[c].id].failed = TRUE]
               ELSE hist
    /\ UNCHANGED <<chain, pool, polls, next_id, lock, calls, removed>>

\* The caller takes the result.
Respond(c) ==
    /\ req[c].pc = "done"
    /\ req' = [req EXCEPT ![c] = IdleReq]
    /\ UNCHANGED <<chain, pool, polls, next_id, lock, calls, hist, removed>>

\* ------------------------------------------------------- the environment
\* Any change of chain or pool ends what the observer calls "unchanged".
Disturbed ==
    /\ hist' = [i \in DOMAIN hist |-> [hist[i] EXCEPT !.fresh = FALSE]]
    /\ req' = [c \in Clients |-> [req[c] EXCEPT !.quiet = FALSE]]

\* A block is imported on top of the best block, the chain growing to `max`.
AppendBlockUpTo(k, max) ==
    /\ Settled
    /\ Len(chain) < max
    /\ chain' = Append(chain, k)
    /\ Disturbed
    /\ UNCHANGED <<pool, polls, next_id, lock, calls, removed>>

AppendBlock(k) == AppendBlockUpTo(k, MaxBlock)

\* A transaction enters the pool.
AddPending(t) ==
    /\ Settled
    /\ t \notin Range(pool)
    /\ pool' = Append(pool, t)
    /\ Disturbed
    /\ UNCHANGED <<chain, polls, next_id, lock, calls, removed>>

\* A transaction leaves the pool.
DropPending(t) ==
    /\ Settled
    /\ t \in Range(pool)
    /\ pool' = SelectSeq(pool, LAMBDA x : x # t)
    /\ Disturbed
    /\ UNCHANGED <<chain, polls, next_id, lock, calls, removed>>

\* The chain is reorganised onto a shorter branch: the best block is dropped.
Rollback ==
    /\ Settled
    /\ Len(chain) > 0
    /\ chain' = SubSeq(chain, 1, Len(chain) - 1)
    /\ Disturbed
    /\ UNCHANGED <<pool, polls, next_id, lock, calls, removed>>

\* ------------------------------------------------------- specifications
Init ==
    /\ chain = <<>>
    /\ pool = <<>>
    /\ polls = <<>>
    /\ next_id = 0
    /\ lock = NoClient
    /\ req = [c \in Clients |-> IdleReq]
    /\ calls = 0
    /\ hist = <<>>
    /\ removed = {}

\* The steps every poll goes through, whatever the class of its filter.
Polling ==
    \/ \E c \in Clients, id \in Ids : filter_changes(c, id)
    \/ \E c \in Clients : filter_changes_return(c)
    \/ \E c \in Clients : Respond(c)

\* The backend answers an outstanding call, or fails it.
Backend ==
    \/ \E c \in Clients : Resolve(c)
    \/ \E c \in Clients : ResolveFail(c)

\* Every method of EthFilter, for all four filter classes, on a growing chain.
Next ==
    \/ \E c \in Clients, f \in Criteria : new_filter(c, f)
    \/ \E c \in Clients : new_block_filter(c)
    \/ \E c \in Clients : new_pending_transaction_filter(c)
    \/ \E c \in Clients : new_return_data_filter(c)
    \/ Polling
    \/ \E c \in Clients, id \in Ids : filter_logs(c, id)
    \/ \E c \in Clients, id \in Ids : uninstall_filter(c, id)
    \/ Backend
    \/ \E k \in {"plain", "log"} : AppendBlock(k)

Spec == Init /\ [][Next]_vars

\* The specifications below are the same system with the callers using one
\* filter class and the environment doing what that class reads.

\* Block filters on a chain some of whose numbers do not resolve.
NextBlocks ==
    \/ \E c \in Clients : new_block_filter(c)
    \/ Polling
    \/ \E k \in {"plain", "gap"} : AppendBlock(k)

SpecBlocks == Init /\ [][NextBlocks]_vars

\* Pending-transaction filters on a changing pool.
NextPendingTx ==
    \/ \E c \in Clients : new_pending_transaction_filter(c)
    \/ Polling
    \/ \E t \in TxHashes : AddPending(t)
    \/ \E t \in TxHashes : DropPending(t)

SpecPendingTx == Init /\ [][NextPendingTx]_vars

\* Log filters on a growing chain.
NextLogs ==
    \/ \E c \in Clients, f \in Criteria : new_filter(c, f)
    \/ Polling
    \/ Backend
    \/ \E k \in {"plain", "log"} : AppendBlock(k)

SpecLogs == Init /\ [][NextLogs]_vars

\* Log filters on a changing pool.
NextPendingLogs ==
    \/ \E c \in Clients, f \in Criteria : new_filter(c, f)
    \/ Polling
    \/ Backend
    \/ \E t \in TxHashes : AddPending(t)
    \/ \E t \in TxHashes : DropPending(t)

SpecPendingLogs == Init /\ [][NextPendingLogs]_vars

\* Pending-transaction filters and log filters on a changing pool.
NextPending ==
    \/ \E c \in Clients, f \in Criteria : new_filter(c, f)
    \/ \E c \in Clients : new_pending_transaction_filter(c)
    \/ Polling
    \/ Backend
    \/ \E t \in TxHashes : AddPending(t)
    \/ \E t \in TxHashes : DropPending(t)

SpecPending == Init /\ [][NextPending]_vars

\* Log filters on a chain every block of which carries a log, and a growing pool.
NextLimit ==
    \/ \E c \in Clients, f \in Criteria : new_filter(c, f)
    \/ Polling
    \/ Backend
    \/ AppendBlock("log")
    \/ \E t \in TxHashes : AddPending(t)

SpecLimit == Init /\ [][NextLimit]_vars

\* Return-data filters on a chain some of whose blocks fail to replay or to
\* resolve.
NextReturnData ==
    \/ \E c \in Clients : new_return_data_filter(c)
    \/ Polling
    \/ Backend
    \/ \E k \in {"plain", "bad", "gap"} : AppendBlock(k)

SpecReturnData == Init /\ [][NextReturnData]_vars

\* Log and block filters, polled and queried in full, on a chain every block of
\* which carries a log, and a growing pool.
NextFilterLogs ==
    \/ \E c \in Clients, f \in Criteria : new_filter(c, f)
    \/ \E c \in Clients : new_block_filter(c)
    \/ Polling
    \/ \E c \in Clients, id \in Ids : filter_logs(c, id)
    \/ Backend
    \/ AppendBlock("log")
    \/ \E t \in TxHashes : AddPending(t)

SpecFilterLogs == Init /\ [][NextFilterLogs]_vars

\* Log filters registered on a chain that already has a block, which then
\* grows by two more.
NextScenario ==
    \/ \E c \in Clients, f \in Criteria : new_filter(c, f)
    \/ Polling
    \/ Backend
    \/ \E k \in {"plain", "log"} : AppendBlockUpTo(k, ScenarioBlocks)

SpecScenario == Init /\ [][NextScenario]_vars

\* The filters that keep a block cursor, on a chain that may be reorganised.
NextReorg ==
    \/ \E c \in Clients, f \in Criteria : new_filter(c, f)
    \/ \E c \in Clients : new_block_filter(c)
    \/ \E c \in Clients : new_return_data_filter(c)
    \/ Polling
    \/ Backend
    \/ AppendBlock("log")
    \/ Rollback

SpecReorg == Init /\ [][NextReorg]_vars


\* ---------------------------------------------------------- properties
\* Caller c begins a filter_changes on a live filter of class `kind` in this step.
PollStep(c, kind) ==
    /\ req[c].pc = "idle"
    /\ req'[c].pc = "held"
    /\ req'[c].op = "filter_changes"
    /\ req'[c].id \in DOMAIN polls
    /\ polls[req'[c].id].kind = kind

\* Caller c has the answer of a filter_changes in hand.
Answered(c) == req[c].pc = "done" /\ req[c].op = "filter_changes"

\* A filter_changes on filter id is between its match and its answer.
InFlight(id) ==
    \E c \in Clients : /\ req[c].op = "filter_changes"
                       /\ req[c].id = id
                       /\ req[c].pc \in {"held", "pending"}

\* C1: a poll of a freshly registered filter, with chain and pool unchanged
\* from the registration to the answer, answers with an empty delta, for every
\* filter class.
C1_FreshPollIsEmpty ==
    \A c \in Clients :
        (Answered(c) /\ req[c].quiet /\ req[c].result.tag # "failed")
            => req[c].result.val = <<>>

\* C2: over all polls of a log filter and all interleavings with block imports,
\* the mined logs the polls return are every matching log of the traversed
\* range [cursor at registration, cursor) exactly once: none twice, none
\* missing (of a filter without limit none of whose polls failed, once no poll
\* is in flight).
C2_EachLogExactlyOnce ==
    \A id \in DOMAIN polls :
        polls[id].kind = "Logs" =>
            /\ hist[id].twice = {}
            /\ (~InFlight(id) /\ ~hist[id].failed /\ polls[id].filter.limit = NoLimit)
                  => \A n \in hist[id].first..(polls[id].block_number - 1) :
                        (n <= best_block_number /\ KindOf(n) = "log")
                            => n \in hist[id].delivered

\* C3: no request holds the registry lock while a backend call of its own is
\* issued or outstanding.
C3_NoLockAcrossBackendCall ==
    \A c \in Clients : lock = c => req[c].call.kind = "none"


\* C4: when every block imported since the filter's last poll (or its
\* registration) resolves to a hash, a poll of a block filter answers with
\* exactly the hashes of those blocks in ascending block order, and leaves the
\* cursor at best_block_number + 1.
C4_BlockPollReturnsNewHashes ==
    [][\A c \in Clients :
          PollStep(c, "Block") =>
              LET id == req'[c].id
                  last == hist[id].best
                  N == best_block_number - last
              IN  (\A n \in (last + 1)..best_block_number : block_hash(n) # <<>>)
                    => /\ req'[c].result =
                            Ok("hashes", [i \in 1..N |-> block_hash(last + i)[1]])
                       /\ polls'[id].block_number = best_block_number + 1]_vars

\* Two blocks were imported after the registration and the poll answered with
\* their two hashes.
C4_Witness ==
    \E c \in Clients :
        /\ Answered(c)
        /\ req[c].id \in DOMAIN polls
        /\ polls[req[c].id].kind = "Block"
        /\ req[c].result = Ok("hashes", <<1, 2>>)
        /\ polls[req[c].id].block_number = 3

\* C5: a poll of a pending-transaction filter answers with exactly the hashes
\* of the backend's current pending list that were not in the list the previous
\* poll (or the registration) saw, in the backend's order; so every hash it
\* answers with is in the pool at the time, and one that has left the pool and
\* has not come back is not answered again.
C5_PendingDeltaIsCurrentMinusPrevious ==
    [][\A c \in Clients :
          PollStep(c, "PendingTransaction") =>
              LET id == req'[c].id
                  known == Range(hist[id].list)
              IN  /\ req'[c].result =
                        Ok("hashes", SelectSeq(pool, LAMBDA h : h \notin known))
                  /\ Range(req'[c].result.val) \subseteq Range(pool)]_vars

\* A later poll answered with the one hash that is new to it.
C5_Witness ==
    \E c \in Clients :
        /\ Answered(c)
        /\ req[c].id \in DOMAIN polls
        /\ polls[req[c].id].kind = "PendingTransaction"
        /\ req[c].result = Ok("hashes", <<2>>)
        /\ pool = <<2>>
        /\ calls >= 3


\* C6: uninstall_filter of an id that is not live answers false and leaves the
\* registry as it was; of a live id it answers true and the id is live no more;
\* and every filter_changes and filter_logs begun on a removed id answers
\* filter_not_found.
C6_RemoveThenNotFound ==
    [][\A c \in Clients :
          /\ (req[c].pc = "idle" /\ req'[c].op = "uninstall_filter") =>
                LET id == req'[c].id
                IN  IF id \in DOMAIN polls
                    THEN /\ req'[c].result = Ok("bool", <<TRUE>>)
                         /\ id \notin DOMAIN polls'
                    ELSE /\ req'[c].result = Ok("bool", <<FALSE>>)
                         /\ polls' = polls
                         /\ next_id' = next_id
          /\ (/\ req[c].pc = "idle"
              /\ req'[c].op \in {"filter_changes", "filter_logs"}
              /\ req'[c].id \in removed)
                => /\ req'[c].result = filter_not_found
                   /\ polls' = polls]_vars

\* A poll of a removed filter was answered with filter_not_found.
C6_Witness ==
    \E c \in Clients :
        /\ Answered(c)
        /\ req[c].id \in removed
        /\ req[c].result = filter_not_found

\* The backend call of a filter_changes of caller c resolves in this step.
ResolveStep(c) ==
    /\ req[c].pc = "pending"
    /\ req[c].op = "filter_changes"
    /\ req'[c].pc = "done"
    /\ req'[c].result.tag # "failed"

\* C7: a poll of a log filter whose criteria carry the limit K answers with at
\* most K logs, and when the backend's logs followed by the pending delta are
\* more than K, with the last K of them.
C7_LimitKeepsLastK ==
    [][\A c \in Clients :
          (ResolveStep(c) /\ req[c].call.kind = "logs" /\ req[c].id \in DOMAIN polls) =>
              LET K == polls[req[c].id].filter.limit
                  all == logs(req[c].call.from) \o req[c].call.pending
                  got == req'[c].result.val
              IN  K # NoLimit =>
                    /\ Len(got) <= K
                    /\ Len(all) > K => got = SubSeq(all, Len(all) - K + 1, Len(all))]_vars

\* A poll with limit 1 answered with a pending log alone, a mined log of its
\* range having been discarded.
C7_Witness ==
    \E c \in Clients :
        /\ Answered(c)
        /\ req[c].id \in DOMAIN polls
        /\ polls[req[c].id].filter.limit = 1
        /\ req[c].result.tag = "logs"
        /\ Len(req[c].result.val) = 1
        /\ req[c].result.val[1].pending
        /\ \E n \in 1..best_block_number :
              /\ KindOf(n) = "log"
              /\ n >= hist[req[c].id].first
              /\ n \notin hist[req[c].id].delivered

\* C8: a poll of a return-data filter leaves the cursor at best_block_number + 1
\* whatever the replays did, hands on no block whose replay failed, replays no
\* block an earlier poll of the filter replayed, and answers with no record of
\* a block whose replay failed.
C8_FailedReplaySkippedForGood ==
    [][\A c \in Clients :
          /\ PollStep(c, "ReturnData") =>
                LET id == req'[c].id
                    range == Range(RangeSeq(polls[id].block_number, best_block_number + 1))
                    executed == req'[c].call.executed
                IN  /\ polls'[id].block_number = best_block_number + 1
                    /\ range \cap hist[id].replayed = {}
                    /\ \A i \in DOMAIN executed : KindOf(executed[i].block) # "bad"
          /\ (ResolveStep(c) /\ req[c].call.kind = "bodies") =>
                \A i \in DOMAIN req'[c].result.val :
                    KindOf(req'[c].result.val[i].transaction_hash) # "bad"]_vars

\* A poll whose range held a block that failed to replay answered with the
\* record of another block, the cursor past both.
C8_Witness ==
    \E c \in Clients :
        /\ Answered(c)
        /\ req[c].id \in DOMAIN polls
        /\ polls[req[c].id].kind = "ReturnData"
        /\ req[c].result.tag = "return_data"
        /\ req[c].result.val # <<>>
        /\ \E n \in hist[req[c].id].replayed : KindOf(n) = "bad"
        /\ polls[req[c].id].block_number = best_block_number + 1

\* C9: a poll of a log filter hands out no pending log that the previous poll
\* of the filter handed out (all it hands out is pending at the time).
C9_PendingLogNotRepeated ==
    [][\A c \in Clients :
          PollStep(c, "Logs") =>
              /\ Range(req'[c].call.pending) \cap hist[req'[c].id].handed = {}
              /\ Range(req'[c].call.pending) \subseteq Range(pending_logs)]_vars

\* The last poll of a filter with to_block pending saw pending logs and handed
\* out none of them: an earlier poll had.
C9_Witness ==
    \E id \in DOMAIN polls :
        /\ polls[id].kind = "Logs"
        /\ polls[id].filter.to_block = "pending"
        /\ polls[id].previous_logs # {}
        /\ hist[id].handed = {}
        /\ ~hist[id].fresh

\* C10: the block cursor of a live filter never decreases, and it changes only
\* in a filter_changes that holds the registry lock.
C10_CursorNeverDecreases ==
    [][\A id \in (DOMAIN polls) \cap (DOMAIN polls') :
          /\ polls'[id].block_number >= polls[id].block_number
          /\ polls'[id].block_number # polls[id].block_number =>
                \E c \in Clients : /\ lock' = c
                                   /\ req'[c].op = "filter_changes"
                                   /\ req'[c].id = id]_vars

\* C10 as amended: the block cursor of a live filter changes only in a
\* filter_changes on it that takes the registry lock, which sets it to
\* best_block_number + 1; so it does not decrease unless the best block number
\* has fallen below cursor - 1.
C10_CursorSetUnderLock ==
    [][\A id \in (DOMAIN polls) \cap (DOMAIN polls') :
          /\ polls'[id].block_number # polls[id].block_number =>
                /\ \E c \in Clients : /\ lock = NoClient
                                      /\ lock' = c
                                      /\ req'[c].op = "filter_changes"
                                      /\ req'[c].id = id
                /\ polls'[id].block_number = best_block_number + 1
          /\ polls[id].block_number <= best_block_number + 1 =>
                polls'[id].block_number >= polls[id].block_number]_vars

\* A poll holding the lock has moved the cursor of a log filter two past the
\* block it was registered at.
C10_Witness ==
    \E c \in Clients :
        /\ lock = c
        /\ req[c].op = "filter_changes"
        /\ req[c].id \in DOMAIN polls
        /\ polls[req[c].id].kind = "Logs"
        /\ polls[req[c].id].block_number = hist[req[c].id].first + 2

\* Caller c begins a filter_changes in this step, on whatever id.
ChangesStep(c) ==
    /\ req[c].pc = "idle"
    /\ req'[c].pc = "held"
    /\ req'[c].op = "filter_changes"

\* C11: a filter_changes on an id that is not live (never issued, or removed)
\* answers filter_not_found and leaves the registry as it was: the live ids,
\* every filter, the next id. A filter_changes on a live id never answers
\* filter_not_found, neither at once nor when its backend call resolves or
\* fails, whether or not its delta is empty.
C11_NotFoundOnlyForUnknownId ==
    [][\A c \in Clients :
          /\ ChangesStep(c) =>
                IF req'[c].id \in DOMAIN polls
                THEN req'[c].result # filter_not_found
                ELSE /\ req'[c].result = filter_not_found
                     /\ req'[c].call = NoCall
                     /\ polls' = polls
                     /\ next_id' = next_id
          /\ (req[c].op = "filter_changes" /\ req[c].pc \in {"held", "pending"}) =>
                (req'[c].result = filter_not_found) = (req[c].result = filter_not_found)]_vars

\* With a filter live, a poll of an id that was never issued was answered
\* filter_not_found.
C11_Witness ==
    \E c \in Clients :
        /\ Answered(c)
        /\ req[c].result = filter_not_found
        /\ req[c].id \notin removed
        /\ req[c].id >= next_id
        /\ polls # <<>>

\* Caller c begins a filter_logs in this step.
FilterLogsStep(c) == req[c].pc = "idle" /\ req'[c].op = "filter_logs"

C13_ReturnDataCursorStartsPastBest ==
    [][\A c \in Clients :
          (req[c].pc = "idle" /\ req'[c].op = "new_return_data_filter") =>
              LET id == req'[c].result.val[1]
              IN  /\ id \in DOMAIN polls'
                  /\ polls'[id].kind = "ReturnData"
                  /\ polls'[id].block_number = best_block_number + 1]_vars

\* No other caller has a filter_changes on filter id under way.
AloneOn(c, id) ==
    \A d \in Clients \ {c} : ~(req[d].op = "filter_changes" /\ req[d].id = id)

\* C14: a log filter with to_block latest is registered at best block b; blocks
\* b+1 and b+2 are appended with one matching log each; the first
\* filter_changes answers exactly those two logs in block order, and a
\* filter_changes that follows a poll with no block in between answers the
\* empty list.
C14_TwoBlocksThenNothing ==
    [][\A c \in Clients :
          (/\ ResolveStep(c)
           /\ req[c].call.kind = "logs"
           /\ req[c].id \in DOMAIN polls
           /\ AloneOn(c, req[c].id)
           /\ polls[req[c].id].filter.to_block = "latest"
           /\ polls[req[c].id].filter.limit = NoLimit) =>
              LET id == req[c].id
                  b == hist[id].first
              IN  /\ (/\ req[c].call.from = b
                      /\ best_block_number = b + 2
                      /\ polls[id].block_number = best_block_number + 1
                      /\ KindOf(b + 1) = "log"
                      /\ KindOf(b + 2) = "log")
                        => req'[c].result.val = <<MinedLog(b + 1), MinedLog(b + 2)>>
                  /\ req[c].call.from = best_block_number + 1
                        => req'[c].result.val = <<>>]_vars

\* C15: a poll of a log or return-data filter has its cursor at
\* best_block_number + 1 in the state in which its backend call is issued; when
\* the call fails the caller is answered the failure, and no filter is touched
\* when a call resolves or fails: the cursor stays where the poll put it.
C15_FailureKeepsCommittedCursor ==
    [][\A c \in Clients :
          /\ (PollStep(c, "Logs") \/ PollStep(c, "ReturnData")) =>
                /\ req'[c].call.kind # "none"
                /\ polls'[req'[c].id].block_number = best_block_number + 1
          /\ (/\ req[c].op = "filter_changes"
              /\ req[c].pc = "pending"
              /\ req'[c].pc = "done") =>
                /\ polls' = polls
                /\ req'[c].result.tag = "failed" => req'[c].result = backend_failed]_vars

\* The backend call of a poll of a log filter failed, the caller has the
\* failure, and the cursor is where that poll put it.
C15_Witness ==
    \E c \in Clients :
        /\ Answered(c)
        /\ req[c].result = backend_failed
        /\ req[c].id \in DOMAIN polls
        /\ polls[req[c].id].kind = "Logs"
        /\ hist[req[c].id].failed
        /\ polls[req[c].id].block_number = best_block_number + 1
        /\ polls[req[c].id].block_number > hist[req[c].id].first

\* C16: on a chain that only grows, whatever callers poll a block filter, the
\* range [cursor, best+1) a poll goes over holds no block number an earlier poll
\* of the filter went over, the hashes it answers are of block numbers no
\* earlier poll went over (the hash of block n is n), and after it the numbers
\* gone over are exactly those from the cursor of the registration to the best
\* block.
C16_BlockRangesDisjoint ==
    [][\A c \in Clients :
          PollStep(c, "Block") =>
              LET id == req'[c].id
                  range == Range(RangeSeq(polls[id].block_number, best_block_number + 1))
              IN  /\ range \cap hist[id].taken = {}
                  /\ Range(req'[c].result.val) \cap hist[id].taken = {}
                  /\ Range(req'[c].result.val) \subseteq range
                  /\ hist'[id].taken = (hist[id].first + 1)..best_block_number]_vars

\* A poll of a block filter answered the hash of block 2 alone, an earlier poll
\* having gone over block 1.
C16_Witness ==
    \E c \in Clients :
        /\ Answered(c)
        /\ req[c].id \in DOMAIN polls
        /\ polls[req[c].id].kind = "Block"
        /\ req[c].result = Ok("hashes", <<2>>)
        /\ hist[req[c].id].taken = {1, 2}

\* C17: a poll of a pending-transaction filter leaves the stored hashes equal
\* to the pending list it read, and a poll of a log filter with to_block pending
\* leaves the stored pending logs equal to the set it read; so whatever is
\* pending and was not in what the previous poll stored is handed out, also
\* when an earlier poll had handed it out.
C17_KnownSetIsReplaced ==
    [][\A c \in Clients :
          /\ PollStep(c, "PendingTransaction") =>
                LET id == req'[c].id
                IN  /\ polls'[id].hashes = pending_transactions_hashes
                    /\ \A h \in Range(pool) \ Range(polls[id].hashes) :
                          h \in Range(req'[c].result.val)
          /\ (PollStep(c, "Logs") /\ polls[req'[c].id].filter.to_block = "pending") =>
                LET id == req'[c].id
                IN  /\ polls'[id].previous_logs = Range(pending_logs)
                    /\ \A l \in Range(pending_logs) \ polls[id].previous_logs :
                          l \in Range(req'[c].call.pending)]_vars

\* A poll of a pending-transaction filter answered a hash that an earlier poll
\* of the filter had answered.
C17_Witness ==
    \E c \in Clients :
        /\ Answered(c)
        /\ req[c].id \in DOMAIN polls
        /\ polls[req[c].id].kind = "PendingTransaction"
        /\ req[c].result.val # <<>>
        /\ Range(req[c].result.val) \subseteq hist[req[c].id].again

\* C18: every live filter is of one of the four variants, the one it was
\* registered as; no step changes the variant of a filter that stays live, nor
\* the criteria of a log filter.
C18_VariantAndCriteriaFixed ==
    [][\A id \in DOMAIN polls' :
          /\ polls'[id].kind \in {"Block", "PendingTransaction", "Logs", "ReturnData"}
          /\ polls'[id].kind = hist'[id].kind
          /\ id \in DOMAIN polls =>
                /\ polls'[id].kind = polls[id].kind
                /\ hist'[id].kind = hist[id].kind
                /\ polls'[id].filter = polls[id].filter]_vars

\* A log filter registered with to_block pending has been polled when the best
\* block was two past that of its registration, and its criteria are as
\* registered.
C18_Witness ==
    \E id \in DOMAIN polls :
        /\ polls[id].kind = "Logs"
        /\ hist[id].kind = "Logs"
        /\ polls[id].filter \in Criteria
        /\ polls[id].filter.to_block = "pending"
        /\ polls[id].block_number = hist[id].first + 3

\* C19: the step in which a filter_changes on id A runs its match leaves the
\* live ids, the next id and every filter other than A as they were; the later
\* steps of the call (its return, the resolution or failure of its backend
\* call, the handing over of the result) leave the whole registry as it was.
C19_PollTouchesOnlyItsFilter ==
    [][\A c \in Clients :
          /\ ChangesStep(c) =>
                /\ DOMAIN polls' = DOMAIN polls
                /\ next_id' = next_id
                /\ \A j \in (DOMAIN polls) \ {req'[c].id} : polls'[j] = polls[j]
          /\ (/\ req[c].op = "filter_changes"
              /\ req[c].pc # "idle"
              /\ req'[c].pc # req[c].pc) =>
                /\ polls' = polls
                /\ next_id' = next_id]_vars

\* A caller's poll has moved the cursor of one block filter past that of
\* another block filter, which still is where its registration put it.
C19_Witness ==
    \E c \in Clients :
        /\ lock = c
        /\ req[c].op = "filter_changes"
        /\ req[c].id \in DOMAIN polls
        /\ polls[req[c].id].kind = "Block"
        /\ \E j \in (DOMAIN polls) \ {req[c].id} :
              /\ polls[j].kind = "Block"
              /\ polls[j].block_number = hist[j].first + 1
              /\ polls[j].block_number < polls[req[c].id].block_number

\* C20: no step of a filter_logs, on whatever id, changes the registry: the
\* live ids, the next id, and the cursor, the pending logs seen and the criteria
\* of every filter stay as they were, from the lookup to the handing over of the
\* result.
C20_FilterLogsLeavesRegistry ==
    [][\A c \in Clients :
          /\ FilterLogsStep(c) =>
                /\ polls' = polls
                /\ next_id' = next_id
          /\ (/\ req[c].op = "filter_logs"
              /\ req[c].pc # "idle"
              /\ req'[c].pc # req[c].pc) =>
                /\ polls' = polls
                /\ next_id' = next_id]_vars

\* A filter_logs on a log filter that no filter_changes has polled answered
\* with a pending log, and the filter still has seen none and has its cursor
\* where the registration put it.
C20_Witness ==
    \E c \in Clients :
        /\ req[c].pc = "done"
        /\ req[c].op = "filter_logs"
        /\ req[c].id \in DOMAIN polls
        /\ req[c].result.tag = "logs"
        /\ \E i \in DOMAIN req[c].result.val : req[c].result.val[i].pending
        /\ polls[req[c].id].previous_logs = {}
        /\ polls[req[c].id].block_number = hist[req[c].id].first
        /\ hist[req[c].id].handed = {}

====
